---- MODULE Spec2Model ----
(***************************************************************************)
(* Voice2Voice: the evaluation pipeline run_voice2voice_evaluation, the    *)
(* lazily loaded model globals it relies on, target-language selection,    *)
(* translation, speech synthesis and the JSON evaluation log.              *)
(*                                                                         *)
(* Calls into third-party libraries (whisper, transformers, difflib,       *)
(* sounddevice, pyttsx3, the file system) are inputs of the actions: each  *)
(* returns one of the values its contract allows or raises.                *)
(***************************************************************************)
EXTENDS Naturals, Sequences, FiniteSets, TLC

\* ------------------------------------------------------------------ bounds
\* Number of runs of run_voice2voice_evaluation in one process.
MaxRuns == 2
\* Number of stand-alone calls of route_translation_pipeline.
MaxRouteCalls == 1

\* ------------------------------------------------------ utils/language.py
INDIAN_LANG_MAP ==
    [c \in {"as", "bn", "brx", "doi", "gu", "hi", "kn", "kok", "ks", "mai",
            "ml", "mni", "mr", "ne", "or", "pa", "sa", "sat", "sd", "ta",
            "te", "ur"} |->
        CASE c = "as" -> "Assamese"  [] c = "bn" -> "Bengali"
          [] c = "brx" -> "Bodo"     [] c = "doi" -> "Dogri"
          [] c = "gu" -> "Gujarati"  [] c = "hi" -> "Hindi"
          [] c = "kn" -> "Kannada"   [] c = "kok" -> "Konkani"
          [] c = "ks" -> "Kashmiri"  [] c = "mai" -> "Maithili"
          [] c = "ml" -> "Malayalam" [] c = "mni" -> "Manipuri"
          [] c = "mr" -> "Marathi"   [] c = "ne" -> "Nepali"
          [] c = "or" -> "Odia"      [] c = "pa" -> "Punjabi"
          [] c = "sa" -> "Sanskrit"  [] c = "sat" -> "Santali"
          [] c = "sd" -> "Sindhi"    [] c = "ta" -> "Tamil"
          [] c = "te" -> "Telugu"    [] c = "ur" -> "Urdu"]

INDIAN_LANGS == DOMAIN INDIAN_LANG_MAP

SUPPORTED_LANGUAGES ==
    [n \in {"english", "hindi", "telugu", "tamil", "german", "french",
            "bengali", "marathi", "kannada", "malayalam", "japanese",
            "spanish", "gujarati", "punjabi"} |->
        CASE n = "english" -> "en"   [] n = "hindi" -> "hi"
          [] n = "telugu" -> "te"    [] n = "tamil" -> "ta"
          [] n = "german" -> "de"    [] n = "french" -> "fr"
          [] n = "bengali" -> "bn"   [] n = "marathi" -> "mr"
          [] n = "kannada" -> "kn"   [] n = "malayalam" -> "ml"
          [] n = "japanese" -> "ja"  [] n = "spanish" -> "es"
          [] n = "gujarati" -> "gu"  [] n = "punjabi" -> "pa"]

\* NLLB_LANG_CODE_MAP without its entries for German and Japanese.
NLLB_LANG_CODE_MAP_NoGerman ==
    [c \in {"en", "hi", "te", "ta", "bn", "ml", "kn", "mr", "gu", "pa", "ur",
            "fr", "es", "zh"} |->
        CASE c = "en" -> "eng_Latn"  [] c = "hi" -> "hin_Deva"
          [] c = "te" -> "tel_Telu"  [] c = "ta" -> "tam_Taml"
          [] c = "bn" -> "ben_Beng"  [] c = "ml" -> "mal_Mlym"
          [] c = "kn" -> "kan_Knda"  [] c = "mr" -> "mar_Deva"
          [] c = "gu" -> "guj_Gujr"  [] c = "pa" -> "pan_Guru"
          [] c = "ur" -> "urd_Arab"  [] c = "fr" -> "fra_Latn"
          [] c = "es" -> "spa_Latn"  [] c = "zh" -> "zho_Hans"]

NLLB_LANG_CODE_MAP ==
    [c \in {"en", "hi", "te", "ta", "bn", "ml", "kn", "mr", "gu", "pa", "ur",
            "ne", "or", "as", "sd", "si", "fr", "de", "es", "zh", "ja", "ko",
            "ru", "ar", "pt", "it"} |->
        CASE c = "en" -> "eng_Latn"  [] c = "hi" -> "hin_Deva"
          [] c = "te" -> "tel_Telu"  [] c = "ta" -> "tam_Taml"
          [] c = "bn" -> "ben_Beng"  [] c = "ml" -> "mal_Mlym"
          [] c = "kn" -> "kan_Knda"  [] c = "mr" -> "mar_Deva"
          [] c = "gu" -> "guj_Gujr"  [] c = "pa" -> "pan_Guru"
          [] c = "ur" -> "urd_Arab"  [] c = "ne" -> "npi_Deva"
          [] c = "or" -> "ory_Orya"  [] c = "as" -> "asm_Beng"
          [] c = "sd" -> "snd_Arab"  [] c = "si" -> "sin_Sinh"
          [] c = "fr" -> "fra_Latn"  [] c = "de" -> "deu_Latn"
          [] c = "es" -> "spa_Latn"  [] c = "zh" -> "zho_Hans"
          [] c = "ja" -> "jpn_Jpan"  [] c = "ko" -> "kor_Hang"
          [] c = "ru" -> "rus_Cyrl"  [] c = "ar" -> "arb_Arab"
          [] c = "pt" -> "por_Latn"  [] c = "it" -> "ita_Latn"]

\* ---------------------------------------------------------- models/tts.py
LANG_VOICE_MAP ==
    [c \in {"en", "es", "fr", "zh", "ar", "pt", "ru", "ja", "de"} |->
        CASE c = "en" -> "com.apple.voice.compact.en-US.Samantha"
          [] c = "es" -> "com.apple.voice.compact.es-ES.Monica"
          [] c = "fr" -> "com.apple.voice.compact.fr-FR.Thomas"
          [] c = "zh" -> "com.apple.voice.compact.zh-CN.Tingting"
          [] c = "ar" -> "com.apple.voice.compact.ar-001.Maged"
          [] c = "pt" -> "com.apple.voice.compact.pt-BR.Luciana"
          [] c = "ru" -> "com.apple.voice.compact.ru-RU.Milena"
          [] c = "ja" -> "com.apple.voice.compact.ja-JP.Kyoko"
          [] c = "de" -> "com.apple.voice.compact.de-DE.Anna"]

\* ------------------------------------------------------- Python values
\* None where a language code or name is expected.
None == "None"

\* An optional str: None, or a str as the sequence of its characters.
NoneText == [none |-> TRUE, chars |-> <<>>]

Str(s) == [none |-> FALSE, chars |-> s]

\* Python truthiness of an optional str: None and "" are falsy.
Truthy(t) == ~t.none /\ t.chars # <<>>

RECURSIVE LStrip(_)
LStrip(s) == IF s # <<>> /\ Head(s) = " " THEN LStrip(Tail(s)) ELSE s

RECURSIVE RStrip(_)
RStrip(s) ==
    IF s # <<>> /\ s[Len(s)] = " " THEN RStrip(SubSeq(s, 1, Len(s) - 1)) ELSE s

\* str.strip()
Strip(s) == RStrip(LStrip(s))

\* `not text or not text.strip()`
IsBlank(t) == ~Truthy(t) \/ Strip(t.chars) = <<>>

\* A module global that holds no object yet (None); loaded objects are 1, 2, ...
NoRef == 0

\* ------------------------------------------------------------ the inputs
\* Language codes Whisper's detect_language may report.
DetectedCodes == {"hi", "ur", "en", "zh"}

\* Texts a transcriber may return.
Transcripts == {<<" ">>, <<" ", "a">>}

\* Texts the NLLB pipeline may return.
Translations == {<<>>, <<" ">>, <<"b">>}

\* What invoking the NLLB pipeline may do: raise, or return a text.
Inferences ==
    {[raises |-> TRUE, text |-> <<>>]} \cup
    {[raises |-> FALSE, text |-> t] : t \in Translations}

\* Texts route_translation_pipeline may be handed.
RouteTexts == {NoneText, Str(<<>>), Str(<<" ", " ">>), Str(<<"a", " ">>)}

\* What difflib.get_close_matches(..., n=1) may return for a spoken or typed
\* name: no match, or one key of SUPPORTED_LANGUAGES.
CloseMatches == {<<>>, <<"hindi">>, <<"german">>}

\* ------------------------------------------------------ the model loaders
\* What a loader call did: the global afterwards, the value returned (<<>>
\* when the call raised), whether it raised, whether the underlying model
\* was loaded successfully, and whether a load was started at all.
LoaderResult(cache, ret, raised, loaded, tried) ==
    [cache |-> cache, ret |-> ret, raised |-> raised, loaded |-> loaded,
     tried |-> tried]

\* get_whisper_model without the `is None` test: every call loads.
get_whisper_model_Reloads(cache, loads, outcome) ==
    IF outcome = "ok"
    THEN LoaderResult(loads + 1, <<loads + 1>>, FALSE, TRUE, TRUE)
    ELSE LoaderResult(cache, <<>>, TRUE, FALSE, TRUE)

\* models/asr.py get_whisper_model; `loads` successful loads happened so far,
\* so a load now yields the object loads + 1.
get_whisper_model(cache, loads, outcome) ==
    IF cache = NoRef
    THEN IF outcome = "ok"
         THEN LoaderResult(loads + 1, <<loads + 1>>, FALSE, TRUE, TRUE)
         ELSE LoaderResult(cache, <<>>, TRUE, FALSE, TRUE)
    ELSE LoaderResult(cache, <<cache>>, FALSE, FALSE, FALSE)

\* models/asr.py get_indic_model
get_indic_model(cache, loads, outcome) ==
    IF cache = NoRef
    THEN IF outcome = "ok"
         THEN LoaderResult(loads + 1, <<loads + 1>>, FALSE, TRUE, TRUE)
         ELSE LoaderResult(cache, <<>>, TRUE, FALSE, TRUE)
    ELSE LoaderResult(cache, <<cache>>, FALSE, FALSE, FALSE)

\* models/translation.py get_nllb_pipeline. The global is assigned as soon as
\* pipeline(...) returns; selecting the qnnpack engine (device is "cpu") is
\* outside the try and may raise after that; a failing quantize_dynamic is
\* caught and changes nothing.
get_nllb_pipeline(cache, loads, outcome) ==
    IF cache = NoRef
    THEN CASE outcome = "ok" ->
                LoaderResult(loads + 1, <<loads + 1>>, FALSE, TRUE, TRUE)
           [] outcome = "quantize_fails" ->
                LoaderResult(loads + 1, <<loads + 1>>, FALSE, TRUE, TRUE)
           [] outcome = "engine_raises" ->
                LoaderResult(loads + 1, <<>>, TRUE, TRUE, TRUE)
           [] OTHER ->
                LoaderResult(cache, <<>>, TRUE, FALSE, TRUE)
    ELSE LoaderResult(cache, <<cache>>, FALSE, FALSE, FALSE)

\* models/tts.py load_parler_tts: three globals, guarded by the model's alone
\* and assigned one after another. The result's cache and ret are triples
\* <<_parler_model, _tokenizer, _desc_tokenizer>>.
load_parler_tts(model, tok, desc, loads, outcome) ==
    IF model = NoRef
    THEN CASE outcome = "ok" ->
                LoaderResult(<<loads + 1, loads + 1, loads + 1>>,
                             <<loads + 1, loads + 1, loads + 1>>,
                             FALSE, TRUE, TRUE)
           [] outcome = "tokenizer_raises" ->
                LoaderResult(<<loads + 1, tok, desc>>, <<>>, TRUE, TRUE, TRUE)
           [] outcome = "desc_tokenizer_raises" ->
                LoaderResult(<<loads + 1, loads + 1, desc>>, <<>>,
                             TRUE, TRUE, TRUE)
           [] OTHER ->
                LoaderResult(<<model, tok, desc>>, <<>>, TRUE, FALSE, TRUE)
    ELSE LoaderResult(<<model, tok, desc>>, <<model, tok, desc>>,
                      FALSE, FALSE, FALSE)

\* models/tts.py get_tts_engine
get_tts_engine(cache, loads, outcome) ==
    IF cache = NoRef
    THEN IF outcome = "ok"
         THEN LoaderResult(loads + 1, <<loads + 1>>, FALSE, TRUE, TRUE)
         ELSE LoaderResult(cache, <<>>, TRUE, FALSE, TRUE)
    ELSE LoaderResult(cache, <<cache>>, FALSE, FALSE, FALSE)

Loaders == {"whisper", "indic", "nllb", "parler", "engine"}

LoadOutcomes == {"ok", "raises"}

NllbLoadOutcomes == {"ok", "quantize_fails", "engine_raises", "raises"}

ParlerLoadOutcomes ==
    {"ok", "tokenizer_raises", "desc_tokenizer_raises", "raises"}

\* The record kept of one loader's calls: whether it was ever called, how
\* often its model was loaded successfully, the value its first returning
\* call returned, the value its latest returning call returned, whether a
\* call was made after one that had returned, and whether such a call
\* started a load.
NoCalls == [called |-> FALSE, loads |-> 0, first |-> <<>>, last |-> <<>>,
            again |-> FALSE, reloaded |-> FALSE]

Called(h, r) ==
    [called |-> TRUE,
     loads |-> IF r.loaded THEN h.loads + 1 ELSE h.loads,
     first |-> IF h.first = <<>> /\ ~r.raised THEN r.ret ELSE h.first,
     last |-> IF r.raised THEN h.last ELSE r.ret,
     again |-> h.again \/ h.first # <<>>,
     reloaded |-> h.reloaded \/ (h.first # <<>> /\ r.tried)]

\* -------------------------------------------------------------- the state
VARIABLES
    \* module globals: models/asr.py, models/translation.py, models/tts.py
    _whisper_model, _indic_model, _nllb_pipeline,
    _parler_model, _tokenizer, _desc_tokenizer, _engine,
    \* the file output_log
    log_file,
    \* run_voice2voice_evaluation: where the current run stands and its locals
    pc, runs, timings, outputs, transcription, tgt_lang, translated_text,
    evaluation_entry, existing,
    \* transcribe_audio: (lang_code, lang_name, is_indic)
    lang,
    \* detect_target_language_by_voice: the loop variable
    attempt,
    \* stand-alone calls of route_translation_pipeline made so far
    routes,
    \* what has been observed: of the loaders' calls in this process,
    calls,
    \* of the current run: the phases entered, in order,
    phases,
    \* the call of transcribe_audio that has just ended: the code detected,
    \* the transcribers run, whether get_indic_model was called,
    asr_obs,
    \* the attempts of the target-language selection under way or just ended,
    \* each <<"voice" or "typed", "matched", "unmatched" or "raised">>,
    sel_obs,
    \* the call of translate_with_nllb that has just ended,
    tr_obs,
    \* the call of play_tts_output that has just ended,
    tts_obs,
    \* the log update: the file before it, whether it raised, whether it
    \* ran to its end,
    log_obs,
    \* the phase an exception left the run from ("none": no exception),
    aborted_in,
    \* the log file as the process found it,
    first_file,
    \* and whether some run so far was left by an exception or had its log
    \* update raise,
    faulted,
    \* a run of run_voice2voice_evaluation in another process that shares the
    \* log file: where its log update stands, the list it read, its entry.
    peer

models == <<_whisper_model, _indic_model, _nllb_pipeline,
            _parler_model, _tokenizer, _desc_tokenizer, _engine>>

locals == <<timings, outputs, transcription, tgt_lang, translated_text,
            evaluation_entry, existing, lang, attempt>>

observed == <<phases, asr_obs, sel_obs, tr_obs, tts_obs, log_obs, aborted_in>>

vars == <<models, log_file, pc, runs, routes, locals, calls, observed,
          first_file, faulted, peer>>

\* ------------------------------------------------------------ the log file
\* The file's content: no file; text that is no JSON document (a truncated
\* or empty file included); a JSON document that is no array; a JSON array.
Absent == [kind |-> "absent", items |-> <<>>]

Invalid == [kind |-> "invalid", items |-> <<>>]

NonList == [kind |-> "value", items |-> <<>>]

Array(items) == [kind |-> "array", items |-> items]

\* json's encoding of an optional str: null, or a string.
JsonText(t) == IF t.none THEN [null |-> TRUE] ELSE [string |-> t.chars]

\* json's encoding of an optional language code or name.
JsonName(c) == IF c = None THEN [null |-> TRUE] ELSE [string |-> c]

\* json.dump of one evaluation entry.
ToJson(e) ==
    [timestamp |-> e.timestamp,
     device |-> e.device,
     timings |-> e.timings,
     outputs |-> [k \in DOMAIN e.outputs |->
                    IF k = "target_language"
                    THEN [code |-> JsonName(e.outputs[k].code),
                          name |-> JsonName(e.outputs[k].name)]
                    ELSE JsonText(e.outputs[k])],
     system_metrics |-> e.system_metrics]

EmptyDict == [k \in {} |-> NoRef]

TimingKeys ==
    {"recording_time_sec", "asr_time_sec", "target_lang_selection_sec",
     "translation_time_sec", "tts_time_sec", "total_pipeline_time_sec"}

OutputKeys == {"transcription", "target_language", "translation"}

\* An entry an earlier process left in the file.
OldEntry ==
    [timestamp |-> 0, device |-> "cpu", timings |-> TimingKeys,
     outputs |-> [transcription |-> [string |-> <<"a">>],
                  target_language |-> [code |-> [null |-> TRUE],
                                       name |-> [null |-> TRUE]],
                  translation |-> [null |-> TRUE]],
     system_metrics |-> {"avg_cores_used", "normalized_cpu_percent",
                         "peak_ram_usage_mb"}]

InitialFiles == {Absent, NonList, Array(<<OldEntry>>)}

NoAsr == [made |-> FALSE]

NoCall == [made |-> FALSE]

\* No other process runs the pipeline.
NoPeer == [pc |-> "none", existing |-> <<>>, entry |-> EmptyDict,
           raised |-> FALSE, completed |-> FALSE]

NoLog == [started |-> FALSE, raised |-> FALSE, completed |-> FALSE,
          before |-> Absent]

Init ==
    /\ _whisper_model = NoRef
    /\ _indic_model = NoRef
    /\ _nllb_pipeline = NoRef
    /\ _parler_model = NoRef
    /\ _tokenizer = NoRef
    /\ _desc_tokenizer = NoRef
    /\ _engine = NoRef
    /\ log_file \in InitialFiles
    /\ pc = "idle"
    /\ runs = 0
    /\ routes = 0
    /\ timings = {}
    /\ outputs = EmptyDict
    /\ transcription = NoneText
    /\ tgt_lang = <<None, None>>
    /\ translated_text = NoneText
    /\ evaluation_entry = EmptyDict
    /\ existing = <<>>
    /\ lang = <<None, None, FALSE>>
    /\ attempt = 0
    /\ calls = [m \in Loaders |-> NoCalls]
    /\ phases = <<>>
    /\ asr_obs = NoAsr
    /\ sel_obs = <<>>
    /\ tr_obs = NoCall
    /\ tts_obs = NoCall
    /\ log_obs = NoLog
    /\ aborted_in = "none"
    /\ first_file = log_file
    /\ faulted = FALSE
    /\ peer = NoPeer

\* ------------------------------------------------ run_voice2voice_evaluation
\* An exception nothing catches leaves run_voice2voice_evaluation from `phase`.
Abort(phase) ==
    /\ pc' = "aborted"
    /\ aborted_in' = phase
    /\ faulted' = TRUE
    /\ UNCHANGED first_file

\* run_pipeline.py 35-47: a run starts with empty timings and outputs.
StartRun ==
    /\ UNCHANGED peer
    /\ pc \in {"idle", "returned", "aborted"}
    /\ runs < MaxRuns
    /\ runs' = runs + 1
    /\ pc' = "record"
    /\ timings' = {}
    /\ outputs' = EmptyDict
    /\ transcription' = NoneText
    /\ tgt_lang' = <<None, None>>
    /\ translated_text' = NoneText
    /\ evaluation_entry' = EmptyDict
    /\ existing' = <<>>
    /\ lang' = <<None, None, FALSE>>
    /\ attempt' = 0
    /\ phases' = <<>>
    /\ asr_obs' = NoAsr
    /\ sel_obs' = <<>>
    /\ tr_obs' = NoCall
    /\ tts_obs' = NoCall
    /\ log_obs' = NoLog
    /\ aborted_in' = "none"
    /\ UNCHANGED <<models, log_file, routes, calls, first_file, faulted>>

\* Phase 1, run_pipeline.py 49-56: play_beep and record_audio, either of
\* which may raise (no audio device, the file cannot be written).
AudioCapture ==
    /\ UNCHANGED peer
    /\ pc = "record"
    /\ phases' = Append(phases, "record")
    /\ \E recorded \in BOOLEAN :
         IF recorded
         THEN /\ timings' = timings \cup {"recording_time_sec"}
              /\ pc' = "detect"
              /\ UNCHANGED <<aborted_in, first_file, faulted>>
         ELSE /\ Abort("record")
              /\ UNCHANGED timings
    /\ UNCHANGED <<models, log_file, runs, routes, outputs, transcription,
                   tgt_lang, translated_text, evaluation_entry, existing,
                   lang, attempt, calls, asr_obs, sel_obs, tr_obs, tts_obs,
                   log_obs, first_file>>

\* detect_input_language_whisper testing the code against the values of
\* SUPPORTED_LANGUAGES, not the keys of INDIAN_LANG_MAP.
detect_input_language_whisper_WrongTable(detected_code) ==
    <<detected_code,
      IF detected_code \in DOMAIN INDIAN_LANG_MAP
      THEN INDIAN_LANG_MAP[detected_code] ELSE "International",
      \E n \in DOMAIN SUPPORTED_LANGUAGES :
          SUPPORTED_LANGUAGES[n] = detected_code>>

\* models/asr.py detect_input_language_whisper, given the code with the
\* highest probability.
detect_input_language_whisper(detected_code) ==
    <<detected_code,
      IF detected_code \in DOMAIN INDIAN_LANG_MAP
      THEN INDIAN_LANG_MAP[detected_code] ELSE "International",
      detected_code \in DOMAIN INDIAN_LANG_MAP>>

\* Phase 2, first half: transcribe_audio up to the routing decision
\* (models/asr.py 121-125): load Whisper, detect the language.
AsrDetect ==
    /\ UNCHANGED peer
    /\ pc = "detect"
    /\ phases' = Append(phases, "detect")
    /\ \E outcome \in LoadOutcomes, detected \in DetectedCodes \cup {"raises"} :
         LET r == get_whisper_model(_whisper_model, calls["whisper"].loads,
                                    outcome)
         IN /\ _whisper_model' = r.cache
            /\ calls' = [calls EXCEPT !["whisper"] = Called(@, r)]
            /\ IF r.raised \/ detected = "raises"
               THEN /\ Abort("detect")
                    /\ UNCHANGED lang
               ELSE /\ lang' = detect_input_language_whisper(detected)
                    /\ pc' = "transcribe"
                    /\ UNCHANGED <<aborted_in, first_file, faulted>>
    /\ UNCHANGED <<_indic_model, _nllb_pipeline, _parler_model, _tokenizer,
                   _desc_tokenizer, _engine, log_file, runs, routes, timings,
                   outputs, transcription, tgt_lang, translated_text,
                   evaluation_entry, existing, attempt, asr_obs, sel_obs,
                   tr_obs, tts_obs, log_obs, first_file>>

\* models/asr.py 127-134: the transcriber transcribe_audio routes to.
Route(is_indic) == IF is_indic THEN "indic" ELSE "whisper"

\* Phase 2, second half: the routed transcription (models/asr.py 127-137,
\* indic_transcribe, whisper_transcribe) and run_pipeline.py 61-64.
AsrTranscribe ==
    /\ UNCHANGED peer
    /\ pc = "transcribe"
    /\ phases' = Append(phases, "transcribe")
    /\ \E outcome \in LoadOutcomes, text \in Transcripts, decoded \in BOOLEAN :
         LET route == Route(lang[3])
             r == IF route = "indic"
                  THEN get_indic_model(_indic_model, calls["indic"].loads,
                                       outcome)
                  ELSE LoaderResult(_indic_model, <<>>, FALSE, FALSE, FALSE)
         IN /\ _indic_model' = r.cache
            /\ calls' = IF route = "indic"
                        THEN [calls EXCEPT !["indic"] = Called(@, r)]
                        ELSE calls
            /\ asr_obs' = [made |-> TRUE, code |-> lang[1], ran |-> {route},
                           indic_called |-> (route = "indic"),
                           indic_arg |-> IF route = "indic"
                                         THEN lang[1] ELSE None,
                           indic_tried |-> r.tried]
            /\ lang' = <<None, None, FALSE>>
            /\ IF r.raised \/ ~decoded
               THEN /\ Abort("transcribe")
                    /\ UNCHANGED <<transcription, outputs, timings>>
               ELSE /\ transcription' = Str(text)
                    /\ outputs' = outputs @@ ("transcription" :> Str(text))
                    /\ timings' = timings \cup {"asr_time_sec"}
                    /\ pc' = "select"
                    /\ UNCHANGED <<aborted_in, first_file, faulted>>
    /\ UNCHANGED <<_whisper_model, _nllb_pipeline, _parler_model, _tokenizer,
                   _desc_tokenizer, _engine, log_file, runs, routes,
                   tgt_lang, translated_text, evaluation_entry, existing,
                   attempt, sel_obs, tr_obs, tts_obs, log_obs, first_file>>

\* models/asr.py detect_target_language_by_voice(attempts=2)
VoiceAttempts == 2

\* range(attempts) that also yields `attempts` itself.
InRange_OffByOne(i) == i < VoiceAttempts + 1

\* `for attempt in range(attempts)`: whether the loop runs its body for i.
InRange(i) == i < VoiceAttempts

\* get_language_code with the pair returned the wrong way round.
get_language_code_Swapped(matches) ==
    IF matches # <<>>
    THEN <<matches[1], SUPPORTED_LANGUAGES[matches[1]]>>
    ELSE <<None, None>>

\* utils/language.py get_language_code, given what get_close_matches found.
get_language_code(matches) ==
    IF matches # <<>>
    THEN <<SUPPORTED_LANGUAGES[matches[1]], matches[1]>>
    ELSE <<None, None>>

\* utils/language.py detect_target_language_manually, given what
\* get_close_matches found for the typed input.
detect_target_language_manually(matches) ==
    LET found == get_language_code(matches)
    IN IF found[1] # None THEN found ELSE <<None, None>>

\* SelectionDone with the run going on at phase 5, not phase 4.
SelectionDone_SkipsTranslation(found) ==
    /\ tgt_lang' = found
    /\ outputs' = outputs @@
          ("target_language" :> [code |-> found[1], name |-> found[2]])
    /\ timings' = timings \cup {"target_lang_selection_sec"}
    /\ pc' = "tts"

\* The end of get_target_language (models/asr.py 188-193) and
\* run_pipeline.py 70-76: the pair found is the target language.
SelectionDone(found) ==
    /\ tgt_lang' = found
    /\ outputs' = outputs @@
          ("target_language" :> [code |-> found[1], name |-> found[2]])
    /\ timings' = timings \cup {"target_lang_selection_sec"}
    /\ pc' = "translate"

\* Phase 3 starts: run_pipeline.py 67-69, get_target_language and the first
\* line of detect_target_language_by_voice (models/asr.py 144).
SelectBegin ==
    /\ UNCHANGED peer
    /\ pc = "select"
    /\ phases' = Append(phases, "select")
    /\ \E outcome \in LoadOutcomes :
         LET r == get_whisper_model(_whisper_model, calls["whisper"].loads,
                                    outcome)
         IN /\ _whisper_model' = r.cache
            /\ calls' = [calls EXCEPT !["whisper"] = Called(@, r)]
            /\ IF r.raised
               THEN Abort("select")
               ELSE /\ pc' = "voice"
                    /\ UNCHANGED <<aborted_in, first_file, faulted>>
    /\ attempt' = 0
    /\ asr_obs' = NoAsr
    /\ UNCHANGED <<_indic_model, _nllb_pipeline, _parler_model, _tokenizer,
                   _desc_tokenizer, _engine, log_file, runs, routes, timings,
                   outputs, transcription, tgt_lang, translated_text,
                   evaluation_entry, existing, lang, sel_obs, tr_obs,
                   tts_obs, log_obs, first_file>>

\* One pass of the loop of detect_target_language_by_voice (models/asr.py
\* 146-171): record, decode, match; and what follows the loop's last pass.
VoiceAttempt ==
    /\ UNCHANGED peer
    /\ pc = "voice"
    /\ InRange(attempt)
    /\ \E heard \in BOOLEAN, matches \in CloseMatches :
         LET found == get_language_code(matches)
         IN IF ~heard
            THEN /\ Abort("select")
                 /\ sel_obs' = Append(sel_obs, <<"voice", "raised">>)
                 /\ UNCHANGED <<attempt, tgt_lang, outputs, timings>>
            ELSE IF found[1] # None
            THEN /\ SelectionDone(found)
                 /\ sel_obs' = Append(sel_obs, <<"voice", "matched">>)
                 /\ UNCHANGED <<attempt, aborted_in, first_file, faulted>>
            ELSE /\ attempt' = attempt + 1
                 /\ pc' = IF InRange(attempt + 1) THEN "voice" ELSE "typed"
                 /\ sel_obs' = Append(sel_obs, <<"voice", "unmatched">>)
                 /\ UNCHANGED <<tgt_lang, outputs, timings, aborted_in,
                                first_file, faulted>>
    /\ UNCHANGED <<models, log_file, runs, routes, transcription,
                   translated_text, evaluation_entry, existing, lang, calls,
                   phases, asr_obs, tr_obs, tts_obs, log_obs, first_file>>

\* get_target_language after the voice attempts found nothing (models/asr.py
\* 184-186): detect_target_language_manually; input() may raise.
ManualInput ==
    /\ UNCHANGED peer
    /\ pc = "typed"
    /\ \E typed \in BOOLEAN, matches \in CloseMatches :
         LET found == detect_target_language_manually(matches)
         IN IF ~typed
            THEN /\ Abort("select")
                 /\ sel_obs' = Append(sel_obs, <<"typed", "raised">>)
                 /\ UNCHANGED <<tgt_lang, outputs, timings>>
            ELSE /\ SelectionDone(found)
                 /\ sel_obs' = Append(sel_obs,
                        <<"typed", IF found[1] # None THEN "matched"
                                   ELSE "unmatched">>)
                 /\ UNCHANGED <<aborted_in, first_file, faulted>>
    /\ UNCHANGED <<models, log_file, runs, routes, transcription,
                   translated_text, evaluation_entry, existing, lang, attempt,
                   calls, phases, asr_obs, tr_obs, tts_obs, log_obs, first_file>>

\* ------------------------------------------------- models/translation.py
\* NLLB_LANG_CODE_MAP.get(code, "eng_Latn")
NllbCode(code) ==
    IF code \in DOMAIN NLLB_LANG_CODE_MAP
    THEN NLLB_LANG_CODE_MAP[code] ELSE "eng_Latn"

\* What a call of translate_with_nllb did: the value returned, whether it
\* raised, the get_nllb_pipeline call it made (called: whether it made one),
\* whether the pipeline was invoked and with which languages.
Translated(ret, raised, load, called, invoked, src, tgt) ==
    [ret |-> ret, raised |-> raised, load |-> load, called |-> called,
     invoked |-> invoked, src_lang |-> src, tgt_lang |-> tgt]

\* translate_with_nllb with get_nllb_pipeline called outside the try.
translate_with_nllb_LoadOutsideTry(text, src_lang_code, tgt_lang_code, cache, loads, outcome, inference) ==
    IF IsBlank(text)
    THEN Translated(NoneText, FALSE,
                    LoaderResult(cache, <<>>, FALSE, FALSE, FALSE), FALSE,
                    FALSE, None, None)
    ELSE LET r == get_nllb_pipeline(cache, loads, outcome)
         IN IF r.raised
            THEN Translated(NoneText, TRUE, r, TRUE, FALSE, None, None)
            ELSE IF inference.raises
            THEN Translated(NoneText, FALSE, r, TRUE, TRUE,
                            NllbCode(src_lang_code), NllbCode(tgt_lang_code))
            ELSE Translated(Str(inference.text), FALSE, r, TRUE, TRUE,
                            NllbCode(src_lang_code), NllbCode(tgt_lang_code))

\* translate_with_nllb(text, src_lang_code, tgt_lang_code): `inference` is
\* what invoking the pipeline does.
translate_with_nllb(text, src_lang_code, tgt_lang_code, cache, loads, outcome, inference) ==
    IF IsBlank(text)
    THEN Translated(NoneText, FALSE,
                    LoaderResult(cache, <<>>, FALSE, FALSE, FALSE), FALSE,
                    FALSE, None, None)
    ELSE LET r == get_nllb_pipeline(cache, loads, outcome)
         IN IF r.raised
            THEN Translated(NoneText, FALSE, r, TRUE, FALSE, None, None)
            ELSE IF inference.raises
            THEN Translated(NoneText, FALSE, r, TRUE, TRUE,
                            NllbCode(src_lang_code), NllbCode(tgt_lang_code))
            ELSE Translated(Str(inference.text), FALSE, r, TRUE, TRUE,
                            NllbCode(src_lang_code), NllbCode(tgt_lang_code))

\* The record kept of a call of translate_with_nllb.
TranslationSeen(by, text, outcome, inference, t) ==
    [made |-> TRUE, by |-> by, blank |-> IsBlank(text), ret |-> t.ret,
     raised |-> t.raised, called |-> t.called, tried |-> t.load.tried,
     load_raised |-> t.load.raised, invoked |-> t.invoked,
     inference_raised |-> (t.invoked /\ inference.raises),
     tgt_lang |-> t.tgt_lang]

\* Phase 4, run_pipeline.py 78-93.
Translate ==
    /\ UNCHANGED peer
    /\ pc = "translate"
    /\ phases' = Append(phases, "translate")
    /\ sel_obs' = <<>>
    /\ \E outcome \in NllbLoadOutcomes,
          inference \in Inferences :
         LET t == translate_with_nllb(transcription, None, tgt_lang[1],
                                      _nllb_pipeline, calls["nllb"].loads,
                                      outcome, inference)
         IN /\ _nllb_pipeline' = t.load.cache
            /\ calls' = IF t.called
                        THEN [calls EXCEPT !["nllb"] = Called(@, t.load)]
                        ELSE calls
            /\ tr_obs' = TranslationSeen("run", transcription, outcome,
                                         inference, t)
            /\ IF t.raised
               THEN /\ Abort("translate")
                    /\ UNCHANGED <<translated_text, outputs, timings>>
               ELSE /\ translated_text' = t.ret
                    /\ outputs' = outputs @@ ("translation" :> t.ret)
                    /\ timings' = timings \cup {"translation_time_sec"}
                    /\ pc' = "tts"
                    /\ UNCHANGED <<aborted_in, first_file, faulted>>
    /\ UNCHANGED <<_whisper_model, _indic_model, _parler_model, _tokenizer,
                   _desc_tokenizer, _engine, log_file, runs, routes,
                   transcription, tgt_lang, evaluation_entry, existing, lang,
                   attempt, asr_obs, tts_obs, log_obs, first_file>>

\* Language codes route_translation_pipeline may be handed as the target.
RouteTargets == {"hi", "de", "xx"}

\* route_translation_pipeline (models/translation.py 72-91), called before
\* the process's first run; it changes nothing but the NLLB global.
RouteTranslation ==
    /\ UNCHANGED peer
    /\ pc = "idle"
    /\ routes < MaxRouteCalls
    /\ routes' = routes + 1
    /\ \E text \in RouteTexts, target \in RouteTargets,
          outcome \in NllbLoadOutcomes,
          inference \in Inferences :
         LET t == translate_with_nllb(text, "en", target, _nllb_pipeline,
                                      calls["nllb"].loads, outcome, inference)
         IN /\ _nllb_pipeline' = t.load.cache
            /\ calls' = IF t.called
                        THEN [calls EXCEPT !["nllb"] = Called(@, t.load)]
                        ELSE calls
            /\ tr_obs' = TranslationSeen("route", text, outcome, inference, t)
    /\ UNCHANGED <<_whisper_model, _indic_model, _parler_model, _tokenizer,
                   _desc_tokenizer, _engine, log_file, pc, runs, locals,
                   phases, asr_obs, sel_obs, tts_obs, log_obs, aborted_in,
                   first_file, faulted>>

\* ---------------------------------------------------------- models/tts.py
\* What model.generate may hand back to generate_speech.
Waveforms == {"raises", "empty", "zeros", "nan", "valid"}

\* What a call of generate_speech or play_tts_output did: whether it raised,
\* the load_parler_tts and get_tts_engine calls it made, the back end and the
\* pyttsx3 voice it used, whether it wrote the output file and played sound.
Spoken(raised, parler, parler_called, engine, engine_called, backend, voice, wrote, played) ==
    [raised |-> raised, parler |-> parler, parler_called |-> parler_called,
     engine |-> engine, engine_called |-> engine_called,
     backend |-> backend, voice |-> voice, wrote |-> wrote,
     played |-> played]

\* generate_speech writing whatever waveform model.generate returned.
generate_speech_WritesAnyWaveform(prompt, model, tok, desc, engine, loads, outcome, waveform, written) ==
    LET nothing == LoaderResult(<<model, tok, desc>>, <<>>, FALSE, FALSE, FALSE)
        idle == LoaderResult(engine, <<>>, FALSE, FALSE, FALSE)
    IN IF IsBlank(prompt)
       THEN Spoken(FALSE, nothing, FALSE, idle, FALSE, "none", None,
                   FALSE, FALSE)
       ELSE LET r == load_parler_tts(model, tok, desc, loads, outcome)
                usable == /\ ~r.raised
                          /\ r.ret[2] # NoRef
                          /\ r.ret[3] # NoRef
                          /\ waveform # "raises"
            IN Spoken(FALSE, r, TRUE, idle, FALSE, "parler", None,
                      usable /\ written, usable /\ written)

\* Whether a generate_speech call got as far as model.generate: the loader
\* returned and both tokenizers it returned could be called.
Generated(p) ==
    /\ p.backend = "parler"
    /\ ~p.parler.raised
    /\ p.parler.ret[2] # NoRef
    /\ p.parler.ret[3] # NoRef

\* generate_speech(prompt, description, output_file): `waveform` is what
\* model.generate does, `written` whether sf.write succeeds. Every exception
\* is caught (models/tts.py 110-111); play_wav catches its own.
generate_speech(prompt, model, tok, desc, engine, loads, outcome, waveform, written) ==
    LET nothing == LoaderResult(<<model, tok, desc>>, <<>>, FALSE, FALSE, FALSE)
        idle == LoaderResult(engine, <<>>, FALSE, FALSE, FALSE)
    IN IF IsBlank(prompt)
       THEN Spoken(FALSE, nothing, FALSE, idle, FALSE, "none", None,
                   FALSE, FALSE)
       ELSE LET r == load_parler_tts(model, tok, desc, loads, outcome)
                usable == /\ ~r.raised
                          /\ r.ret[2] # NoRef
                          /\ r.ret[3] # NoRef
                          /\ waveform = "valid"
            IN Spoken(FALSE, r, TRUE, idle, FALSE, "parler", None,
                      usable /\ written, usable /\ written)

\* play_tts_output without its test for missing text.
play_tts_output_NoGuard(text, lang_type, tgt_lang_code, model, tok, desc, engine, ploads, eloads, poutcome, eoutcome, waveform, written, said) ==
    IF lang_type = "indian"
    THEN generate_speech(text, model, tok, desc, engine, ploads, poutcome,
                         waveform, written)
    ELSE LET e == get_tts_engine(engine, eloads, eoutcome)
             voice_id == IF tgt_lang_code \in DOMAIN LANG_VOICE_MAP
                         THEN LANG_VOICE_MAP[tgt_lang_code]
                         ELSE LANG_VOICE_MAP["en"]
         IN Spoken(e.raised \/ ~said,
                   LoaderResult(<<model, tok, desc>>, <<>>, FALSE, FALSE, FALSE),
                   FALSE, e, TRUE, "pyttsx3",
                   IF e.raised THEN None ELSE voice_id,
                   FALSE, ~e.raised /\ said)

\* play_tts_output(text, lang_type, tgt_lang_code): `said` is whether
\* engine.say/runAndWait return rather than raise.
play_tts_output(text, lang_type, tgt_lang_code, model, tok, desc, engine, ploads, eloads, poutcome, eoutcome, waveform, written, said) ==
    IF IsBlank(text)
    THEN Spoken(FALSE,
                LoaderResult(<<model, tok, desc>>, <<>>, FALSE, FALSE, FALSE),
                FALSE, LoaderResult(engine, <<>>, FALSE, FALSE, FALSE),
                FALSE, "none", None, FALSE, FALSE)
    ELSE IF lang_type = "indian"
    THEN generate_speech(text, model, tok, desc, engine, ploads, poutcome,
                         waveform, written)
    ELSE LET e == get_tts_engine(engine, eloads, eoutcome)
             voice_id == IF tgt_lang_code \in DOMAIN LANG_VOICE_MAP
                         THEN LANG_VOICE_MAP[tgt_lang_code]
                         ELSE LANG_VOICE_MAP["en"]
         IN Spoken(e.raised \/ ~said,
                   LoaderResult(<<model, tok, desc>>, <<>>, FALSE, FALSE, FALSE),
                   FALSE, e, TRUE, "pyttsx3",
                   IF e.raised THEN None ELSE voice_id,
                   FALSE, ~e.raised /\ said)

\* run_pipeline.py 97-101
LangType(tgt_lang_code) ==
    IF tgt_lang_code \in DOMAIN INDIAN_LANG_MAP
    THEN "indian" ELSE "international"

\* Phase 5, run_pipeline.py 95-105.
TtsSynthesis ==
    /\ UNCHANGED peer
    /\ pc = "tts"
    /\ phases' = Append(phases, "tts")
    /\ tr_obs' = NoCall
    /\ \E poutcome \in ParlerLoadOutcomes, eoutcome \in LoadOutcomes,
          waveform \in Waveforms, written \in BOOLEAN, said \in BOOLEAN :
         \* inputs the call does not consume are fixed, not enumerated
         /\ IsBlank(translated_text) \/ LangType(tgt_lang[1]) # "indian"
               => poutcome = "ok" /\ waveform = "valid" /\ written
         /\ IsBlank(translated_text) \/ LangType(tgt_lang[1]) = "indian"
               => eoutcome = "ok" /\ said
         /\ poutcome # "ok" => waveform = "valid"
         /\ waveform # "valid" => written
         /\ LET lang_type == LangType(tgt_lang[1])
             p == play_tts_output(translated_text, lang_type, tgt_lang[1],
                     _parler_model, _tokenizer, _desc_tokenizer, _engine,
                     calls["parler"].loads, calls["engine"].loads,
                     poutcome, eoutcome, waveform, written, said)
           IN
            /\ _parler_model' = p.parler.cache[1]
            /\ _tokenizer' = p.parler.cache[2]
            /\ _desc_tokenizer' = p.parler.cache[3]
            /\ _engine' = p.engine.cache
            /\ calls' = [calls EXCEPT
                  !["parler"] = IF p.parler_called
                                THEN Called(@, p.parler) ELSE @,
                  !["engine"] = IF p.engine_called
                                THEN Called(@, p.engine) ELSE @]
            /\ tts_obs' = [made |-> TRUE, blank |-> IsBlank(translated_text),
                           lang_type |-> lang_type, code |-> tgt_lang[1],
                           raised |-> p.raised,
                           parler_called |-> p.parler_called,
                           engine_called |-> p.engine_called,
                           backend |-> p.backend, voice |-> p.voice,
                           waveform |-> IF Generated(p)
                                        THEN waveform ELSE "none",
                           wrote |-> p.wrote, played |-> p.played]
            /\ IF p.raised
               THEN /\ Abort("tts")
                    /\ UNCHANGED timings
               ELSE /\ timings' = timings \cup {"tts_time_sec"}
                    /\ pc' = "aggregate"
                    /\ UNCHANGED <<aborted_in, first_file, faulted>>
    /\ UNCHANGED <<_whisper_model, _indic_model, _nllb_pipeline, log_file,
                   runs, routes, outputs, transcription, tgt_lang,
                   translated_text, evaluation_entry, existing, lang, attempt,
                   asr_obs, sel_obs, log_obs, first_file>>

\* run_pipeline.py 107-151: the total time and the evaluation entry; the
\* run's number stands for its timestamp.
FinalAggregation ==
    /\ UNCHANGED peer
    /\ pc = "aggregate"
    /\ timings' = timings \cup {"total_pipeline_time_sec"}
    /\ evaluation_entry' =
          [timestamp |-> runs, device |-> "cpu", timings |-> timings',
           outputs |-> outputs,
           system_metrics |-> {"avg_cores_used", "normalized_cpu_percent",
                               "peak_ram_usage_mb"}]
    /\ pc' = "log_read"
    /\ tts_obs' = NoCall
    /\ UNCHANGED <<models, log_file, runs, routes, outputs, transcription,
                   tgt_lang, translated_text, existing, lang, attempt, calls,
                   phases, asr_obs, sel_obs, tr_obs, log_obs, aborted_in,
                   first_file, faulted>>

\* run_pipeline.py 155-164: the list the entry will be appended to. `io` is
\* "raises" when opening or reading the file raises something other than
\* json.JSONDecodeError.
read_log(file, io) ==
    IF file.kind = "absent" THEN [raised |-> FALSE, existing |-> <<>>]
    ELSE IF io = "raises" THEN [raised |-> TRUE, existing |-> <<>>]
    ELSE IF file.kind = "array"
    THEN [raised |-> FALSE, existing |-> file.items]
    ELSE [raised |-> FALSE, existing |-> <<>>]

\* write_log opening the file to append: a second document after the first.
write_log_AppendMode(file, loaded, entry, io) ==
    CASE io = "open_raises" -> file
      [] io = "dump_raises" -> Invalid
      [] file.kind = "absent" -> Array(Append(loaded, ToJson(entry)))
      [] OTHER -> Invalid

\* write_log that dumps the new entry alone.
write_log_Overwrites(file, loaded, entry, io) ==
    CASE io = "open_raises" -> file
      [] io = "dump_raises" -> Invalid
      [] OTHER -> Array(<<ToJson(entry)>>)

\* run_pipeline.py 166-170: append and rewrite. open(.., "w") truncates the
\* file, so a json.dump or write that raises leaves text that is no JSON.
write_log(file, loaded, entry, io) ==
    CASE io = "open_raises" -> file
      [] io = "dump_raises" -> Invalid
      [] OTHER -> Array(Append(loaded, ToJson(entry)))

\* Return with no except clause around the log update.
Return_Propagates(raised) ==
    /\ pc' = IF raised THEN "aborted" ELSE "returned"
    /\ aborted_in' = IF raised THEN "log" ELSE aborted_in
    /\ faulted' = (faulted \/ raised)
    /\ UNCHANGED first_file

\* `return evaluation_entry` (run_pipeline.py 175), reached after the log
\* update ended, by itself or in the except clause (172-173).
Return(raised) ==
    /\ pc' = "returned"
    /\ faulted' = (faulted \/ raised)
    /\ UNCHANGED <<aborted_in, first_file>>

\* The log update's read half, run_pipeline.py 154-164.
LogRead ==
    /\ UNCHANGED peer
    /\ pc = "log_read"
    /\ phases' = Append(phases, "log")
    /\ \E io \in {"ok", "raises"} :
         LET r == read_log(log_file, io)
         IN /\ existing' = r.existing
            /\ log_obs' = [started |-> TRUE, raised |-> r.raised,
                           completed |-> FALSE, before |-> log_file]
            /\ IF r.raised
               THEN Return(TRUE)
               ELSE /\ pc' = "log_write"
                    /\ UNCHANGED <<aborted_in, first_file, faulted>>
    /\ UNCHANGED <<models, log_file, runs, routes, timings, outputs,
                   transcription, tgt_lang, translated_text, evaluation_entry,
                   lang, attempt, calls, asr_obs, sel_obs, tr_obs, tts_obs>>

\* The log update's write half, run_pipeline.py 166-173.
LogWrite ==
    /\ UNCHANGED peer
    /\ pc = "log_write"
    /\ \E io \in {"ok", "open_raises", "dump_raises"} :
         /\ log_file' = write_log(log_file, existing, evaluation_entry, io)
         /\ log_obs' = [log_obs EXCEPT !.raised = (io # "ok"),
                                       !.completed = (io = "ok")]
         /\ Return(io # "ok")
    /\ UNCHANGED <<models, runs, routes, locals, calls, phases, asr_obs,
                   sel_obs, tr_obs, tts_obs>>

Next ==
    \/ StartRun
    \/ AudioCapture
    \/ AsrDetect
    \/ AsrTranscribe
    \/ SelectBegin
    \/ VoiceAttempt
    \/ ManualInput
    \/ Translate
    \/ RouteTranslation
    \/ TtsSynthesis
    \/ FinalAggregation
    \/ LogRead
    \/ LogWrite

Spec == Init /\ [][Next]_vars

\* ------------------------------------------- two runs sharing the log file
\* The entries the other process's run may have built (run_pipeline.py
\* 125-137); its timestamp differs from this process's.
PeerEntries ==
    {[timestamp |-> 2, device |-> "cpu", timings |-> TimingKeys,
      outputs |-> [transcription |-> Str(<<" ", "a">>),
                   target_language |-> [code |-> "de", name |-> "german"],
                   translation |-> t],
      system_metrics |-> {"avg_cores_used", "normalized_cpu_percent",
                          "peak_ram_usage_mb"}] :
        t \in {NoneText, Str(<<"b">>)}}

\* A first run of this process has built its entry and stands before its log
\* update: English was detected, Whisper transcribed " ", no target language
\* was selected, and translation and playback were skipped.
AtLogUpdate ==
    /\ _whisper_model = 1
    /\ _indic_model = NoRef
    /\ _nllb_pipeline = NoRef
    /\ _parler_model = NoRef
    /\ _tokenizer = NoRef
    /\ _desc_tokenizer = NoRef
    /\ _engine = NoRef
    /\ pc = "log_read"
    /\ runs = 1
    /\ routes = 0
    /\ timings = TimingKeys
    /\ transcription = Str(<<" ">>)
    /\ tgt_lang = <<None, None>>
    /\ translated_text = NoneText
    /\ outputs = [transcription |-> transcription,
                  target_language |-> [code |-> None, name |-> None],
                  translation |-> NoneText]
    /\ evaluation_entry =
          [timestamp |-> 1, device |-> "cpu", timings |-> TimingKeys,
           outputs |-> outputs,
           system_metrics |-> {"avg_cores_used", "normalized_cpu_percent",
                               "peak_ram_usage_mb"}]
    /\ existing = <<>>
    /\ lang = <<None, None, FALSE>>
    /\ attempt = 2
    /\ calls = [m \in Loaders |->
                  IF m = "whisper"
                  THEN [called |-> TRUE, loads |-> 1, first |-> <<1>>,
                        last |-> <<1>>, again |-> TRUE, reloaded |-> FALSE]
                  ELSE NoCalls]
    /\ phases = <<"record", "detect", "transcribe", "select", "translate",
                  "tts">>
    /\ asr_obs = NoAsr
    /\ sel_obs = <<>>
    /\ tr_obs = NoCall
    /\ tts_obs = NoCall
    /\ log_obs = NoLog
    /\ aborted_in = "none"
    /\ faulted = FALSE

\* Two processes, each in a run that stands before its log update on the
\* same file.
InitOverlap ==
    /\ AtLogUpdate
    /\ log_file \in InitialFiles
    /\ first_file = log_file
    /\ \E e \in PeerEntries :
          peer = [pc |-> "log_read", existing |-> <<>>, entry |-> e,
                  raised |-> FALSE, completed |-> FALSE]

\* The other run's read of the log, run_pipeline.py 154-164.
PeerLogRead ==
    /\ peer.pc = "log_read"
    /\ \E io \in {"ok", "raises"} :
         LET r == read_log(log_file, io)
         IN peer' = [peer EXCEPT !.existing = r.existing,
                                 !.raised = r.raised,
                                 !.pc = IF r.raised THEN "returned"
                                        ELSE "log_write"]
    /\ UNCHANGED <<models, log_file, pc, runs, routes, locals, calls,
                   observed, first_file, faulted>>

\* The other run's append and rewrite, run_pipeline.py 166-175.
PeerLogWrite ==
    /\ peer.pc = "log_write"
    /\ \E io \in {"ok", "open_raises", "dump_raises"} :
         /\ log_file' = write_log(log_file, peer.existing, peer.entry, io)
         /\ peer' = [peer EXCEPT !.raised = (io # "ok"),
                                 !.completed = (io = "ok"),
                                 !.pc = "returned"]
    /\ UNCHANGED <<models, pc, runs, routes, locals, calls, observed,
                   first_file, faulted>>

\* The log updates of the two runs, their reads and their writes interleaved
\* in any order; a read and a write are each one step.
NextOverlap ==
    \/ LogRead
    \/ LogWrite
    \/ PeerLogRead
    \/ PeerLogWrite

SpecOverlap == InitOverlap /\ [][NextOverlap]_vars

\* ============================================================== the claims
\* The phases of a run, in the order run_pipeline.py 49-173 enters them.
PhaseOrder ==
    <<"record", "detect", "transcribe", "select", "translate", "tts", "log">>

\* How many phases a run standing at `p` has entered.
PhasesEnteredAt(p) ==
    CASE p = "record" -> 0
      [] p = "detect" -> 1
      [] p = "transcribe" -> 2
      [] p = "select" -> 3
      [] p \in {"voice", "typed", "translate"} -> 4
      [] p = "tts" -> 5
      [] p \in {"aggregate", "log_read"} -> 6
      [] p \in {"log_write", "returned"} -> 7
      [] OTHER -> 0

\* C1, as stated: every run, however it ends, has entered each of the phases
\* record, detect, transcribe, select, translate, synthesize, log exactly
\* once, in that order.
C1_EveryRunEntersEveryPhase ==
    pc \in {"returned", "aborted"} => phases = PhaseOrder

\* C1, amended: the phases a run has entered are always an initial part of
\* the fixed order record, detect, transcribe, select, translate, synthesize,
\* log, each entered once and only when the one before it has returned; a run
\* that returns has entered all of them; a run an uncaught exception ends has
\* entered them up to the phase that raised, and never the log update.
C1_PhasesInOrder ==
    /\ Len(phases) <= Len(PhaseOrder)
    /\ phases = SubSeq(PhaseOrder, 1, Len(phases))
    /\ pc # "aborted" => Len(phases) = PhasesEnteredAt(pc)
    /\ pc = "returned" => phases = PhaseOrder
    /\ pc = "aborted" => /\ phases # <<>>
                         /\ phases[Len(phases)] = aborted_in
                         /\ aborted_in # "log"

\* C1's case: a second run has returned, having entered every phase.
C1_RunReturned == pc = "returned" /\ runs > 1 /\ phases = PhaseOrder

\* The global a loader guards, as the tuple the loader returns.
Cache(m) ==
    CASE m = "whisper" -> <<_whisper_model>>
      [] m = "indic" -> <<_indic_model>>
      [] m = "nllb" -> <<_nllb_pipeline>>
      [] m = "parler" -> <<_parler_model, _tokenizer, _desc_tokenizer>>
      [] m = "engine" -> <<_engine>>

\* C2: each of the five loaders is lazy and memoized: its model is not loaded
\* and its global is None until it is first called; over all its calls the
\* model is loaded successfully at most once; and once a call of it has
\* returned, every later call returns that same value, which is the cached
\* global, and starts no load.
C2_LazyMemoized ==
    \A m \in Loaders :
        /\ ~calls[m].called => calls[m].loads = 0 /\ Cache(m)[1] = NoRef
        /\ calls[m].loads <= 1
        /\ calls[m].first # <<>> =>
              /\ calls[m].last = calls[m].first
              /\ calls[m].first = Cache(m)
              /\ ~calls[m].reloaded

\* C2's case: Whisper, IndicConformer, NLLB and Parler have each been loaded
\* once and called again after a call that returned, and pyttsx3, never
\* called, is not initialised.
C2_CachedModelsReused ==
    /\ \A m \in {"whisper", "indic", "nllb", "parler"} :
          calls[m].again /\ calls[m].loads = 1
    /\ ~calls["engine"].called
    /\ _engine = NoRef

\* The log file holds an array of k entries, the i-th stamped by the i-th run.
FileOfRuns(k) ==
    /\ log_file.kind = "array"
    /\ Len(log_file.items) = k
    /\ \A i \in 1..k : log_file.items[i].timestamp = i

C4_NoSecondAttempt ==
    /\ \A i, j \in 1..Len(phases) : phases[i] = phases[j] => i = j
    /\ \A i \in 1..Len(sel_obs) :
          i < Len(sel_obs) => sel_obs[i][2] \notin {"unmatched", "raised"}

\* C4, amended: within a run recording, detection, transcription,
\* translation, synthesis and the log update are each attempted at most once;
\* target-language selection alone tries again, and only after an attempt
\* that matched no supported language: a second voice attempt after the
\* first, one typed prompt after the second, three attempts at most, and
\* none after an attempt that matched or raised.
C4_OnlySelectionRetries ==
    /\ \A i, j \in 1..Len(phases) : phases[i] = phases[j] => i = j
    /\ Len(sel_obs) <= VoiceAttempts + 1
    /\ \A i \in 1..Len(sel_obs) :
          /\ sel_obs[i][1] = IF i <= VoiceAttempts THEN "voice" ELSE "typed"
          /\ i < Len(sel_obs) => sel_obs[i][2] = "unmatched"

\* C4's case: both voice attempts and the typed input were tried in one run.
C4_ThreeAttempts ==
    /\ Len(sel_obs) = VoiceAttempts + 1
    /\ sel_obs[1] = <<"voice", "unmatched">>
    /\ sel_obs[Len(sel_obs)][1] = "typed"

\* C5: translate_with_nllb never raises; given text that is None, empty or
\* only whitespace it returns None without calling get_nllb_pipeline, loading
\* or invoking the model; and when loading the model or invoking it raises,
\* it returns None, so that the run goes on to synthesis.
C5_TranslateNeverRaises ==
    /\ aborted_in # "translate"
    /\ tr_obs.made =>
          /\ ~tr_obs.raised
          /\ tr_obs.blank =>
                /\ tr_obs.ret = NoneText
                /\ ~tr_obs.called
                /\ ~tr_obs.tried
                /\ ~tr_obs.invoked
          /\ tr_obs.load_raised \/ tr_obs.inference_raised =>
                tr_obs.ret = NoneText
          /\ tr_obs.by = "run" => pc = "tts" /\ translated_text = tr_obs.ret

\* C5's case: in a run, loading the NLLB model raised and the translation
\* came back None.
C5_LoadRaisedInRun ==
    /\ tr_obs.made
    /\ tr_obs.by = "run"
    /\ tr_obs.load_raised
    /\ translated_text = NoneText
    /\ pc = "tts"

\* C6: in a call of transcribe_audio in which Whisper has detected a language,
\* exactly one transcriber runs: IndicConformer, handed the detected code, if
\* and only if that code is a key of INDIAN_LANG_MAP, and Whisper otherwise;
\* and when the code is no such key, get_indic_model is not called and no
\* load of the IndicConformer model starts.
C6_RoutesOnDetectedLanguage ==
    asr_obs.made =>
        /\ Cardinality(asr_obs.ran) = 1
        /\ asr_obs.ran = {"indic"} <=> asr_obs.code \in DOMAIN INDIAN_LANG_MAP
        /\ asr_obs.ran = {"whisper"} <=>
              asr_obs.code \notin DOMAIN INDIAN_LANG_MAP
        /\ asr_obs.ran = {"indic"} => asr_obs.indic_arg = asr_obs.code
        /\ asr_obs.code \notin DOMAIN INDIAN_LANG_MAP =>
              ~asr_obs.indic_called /\ ~asr_obs.indic_tried

\* C6's case: Urdu, an Indian language that is no supported target, was
\* detected and transcribed by IndicConformer.
C6_UrduGoesToIndic ==
    /\ asr_obs.made
    /\ asr_obs.code = "ur"
    /\ asr_obs.ran = {"indic"}
    /\ pc = "select"

\* C7: target-language selection makes at most 2 voice attempts and stops at
\* the first that matches; it prompts for typed input at most once, as its
\* third attempt and only after two voice attempts that matched nothing, and
\* does so whenever both matched nothing; what it returns is (None, None) or
\* a pair (code, name) with SUPPORTED_LANGUAGES[name] = code, and it is
\* (None, None) only when both voice attempts and the typed input matched
\* nothing.
C7_VoiceFirstTypedLast ==
    LET n == Len(sel_obs)
        voice == {i \in 1..n : sel_obs[i][1] = "voice"}
        typed == {i \in 1..n : sel_obs[i][1] = "typed"}
        unmatched == {i \in 1..n : sel_obs[i][2] = "unmatched"}
    IN /\ Cardinality(voice) <= 2
       /\ Cardinality(typed) <= 1
       /\ \A i \in 1..n : sel_obs[i][2] = "matched" => i = n
       /\ \A i \in typed : i = 3 /\ {1, 2} \subseteq voice \cap unmatched
       /\ pc = "translate" =>
             /\ n >= 1
             /\ {1, 2} \subseteq voice \cap unmatched => typed = {3}
             /\ \/ tgt_lang = <<None, None>>
                \/ /\ tgt_lang[2] \in DOMAIN SUPPORTED_LANGUAGES
                   /\ SUPPORTED_LANGUAGES[tgt_lang[2]] = tgt_lang[1]
             /\ tgt_lang = <<None, None>> => unmatched = {1, 2, 3}
             /\ sel_obs[n][2] = "matched" => tgt_lang # <<None, None>>

\* C7's case: two voice attempts matched nothing and the typed input selected
\* German.
C7_TypedAfterTwoVoice ==
    /\ pc = "translate"
    /\ sel_obs = <<<<"voice", "unmatched">>, <<"voice", "unmatched">>,
                   <<"typed", "matched">>>>
    /\ tgt_lang = <<"de", "german">>

\* The last element of a non-empty sequence.
Last(q) == q[Len(q)]

\* C8: when a run has returned and its log update ran to its end, the log
\* file holds a JSON array whose last element is the run's entry; if the file
\* was absent, was no JSON or held a JSON value that is no array, the array
\* holds that entry alone; if it held an array, the array is that one with
\* the entry appended.
C8_CompletedUpdateLeavesArray ==
    pc = "returned" /\ log_obs.completed =>
        /\ log_file.kind = "array"
        /\ log_file.items # <<>>
        /\ Last(log_file.items) = ToJson(evaluation_entry)
        /\ log_obs.before.kind \in {"absent", "invalid", "value"} =>
              log_file.items = <<ToJson(evaluation_entry)>>
        /\ log_obs.before.kind = "array" =>
              log_file.items =
                  Append(log_obs.before.items, ToJson(evaluation_entry))

\* C8's case: a run completed its log update on a file that held no JSON.
C8_UpdateOfInvalidFile ==
    /\ pc = "returned"
    /\ log_obs.completed
    /\ log_obs.before.kind = "invalid"

\* C9: an exception raised while reading or writing the log file never ends
\* the run: the run returns; and the entry a run returns carries the six
\* timing keys and the three output keys.
C9_LogFailureStillReturns ==
    /\ aborted_in # "log"
    /\ log_obs.raised => pc = "returned"
    /\ pc = "returned" =>
          /\ evaluation_entry.timings = TimingKeys
          /\ DOMAIN evaluation_entry.outputs = OutputKeys
          /\ DOMAIN evaluation_entry.outputs["target_language"] =
                {"code", "name"}

\* C9's case: a run's log update raised on a file holding an array, and the
\* run returned its entry.
C9_ReturnedAfterLogFailure ==
    /\ pc = "returned"
    /\ log_obs.raised
    /\ log_obs.before.kind = "array"
    /\ evaluation_entry.timings = TimingKeys

\* C10: play_tts_output given text that is None, empty or only whitespace
\* returns without calling load_parler_tts or get_tts_engine, without writing
\* or playing anything and without raising; so a run whose translation is
\* None speaks nothing, records tts_time_sec, goes on to its log update and,
\* when that runs to its end, has its entry as the file's last element.
C10_BlankTextSkipsPlayback ==
    /\ tts_obs.made /\ tts_obs.blank =>
          /\ ~tts_obs.raised
          /\ ~tts_obs.parler_called
          /\ ~tts_obs.engine_called
          /\ tts_obs.backend = "none"
          /\ ~tts_obs.wrote
          /\ ~tts_obs.played
          /\ pc = "aggregate"
          /\ "tts_time_sec" \in timings
    /\ tts_obs.made /\ translated_text = NoneText => tts_obs.blank
    /\ pc = "returned" /\ translated_text = NoneText =>
          /\ "tts_time_sec" \in evaluation_entry.timings
          /\ evaluation_entry.outputs["translation"] = NoneText
          /\ log_obs.started
          /\ log_obs.completed =>
                Last(log_file.items) = ToJson(evaluation_entry)

\* C10's case: a run with Hindi as its target and no translation has returned
\* and logged its entry, and neither Parler nor pyttsx3 was ever loaded.
C10_SilentRunLogged ==
    /\ pc = "returned"
    /\ tgt_lang = <<"hi", "hindi">>
    /\ translated_text = NoneText
    /\ log_obs.completed
    /\ ~calls["parler"].called
    /\ ~calls["engine"].called

\* C11: a play_tts_output call with text that is not None, empty or only
\* whitespace uses exactly one back end: generate_speech (Indic-Parler) if
\* and only if lang_type is "indian", and otherwise pyttsx3 with the voice
\* LANG_VOICE_MAP[tgt_lang_code], the English voice when the code has no
\* entry; and generate_speech never raises, and writes and plays the output
\* file only when the waveform generated is non-empty, not all zeros and
\* free of NaN.
C11_OneBackEndPerCall ==
    tts_obs.made /\ ~tts_obs.blank =>
        /\ tts_obs.backend \in {"parler", "pyttsx3"}
        /\ tts_obs.backend = "parler" <=> tts_obs.lang_type = "indian"
        /\ tts_obs.parler_called <=> tts_obs.backend = "parler"
        /\ tts_obs.engine_called <=> tts_obs.backend = "pyttsx3"
        /\ tts_obs.backend = "pyttsx3" /\ tts_obs.voice # None =>
              tts_obs.voice = IF tts_obs.code \in DOMAIN LANG_VOICE_MAP
                              THEN LANG_VOICE_MAP[tts_obs.code]
                              ELSE LANG_VOICE_MAP["en"]
        /\ tts_obs.backend = "pyttsx3" /\ tts_obs.played => tts_obs.voice # None
        /\ tts_obs.backend = "parler" =>
              /\ ~tts_obs.raised
              /\ tts_obs.voice = None
              /\ tts_obs.wrote \/ tts_obs.played => tts_obs.waveform = "valid"

\* C11's case: for a Hindi target Indic-Parler generated a waveform of zeros
\* only, and nothing was written or played.
C11_ZeroWaveformDropped ==
    /\ tts_obs.made
    /\ ~tts_obs.blank
    /\ tts_obs.code = "hi"
    /\ tts_obs.backend = "parler"
    /\ tts_obs.waveform = "zeros"
    /\ ~tts_obs.wrote
    /\ ~tts_obs.played
    /\ pc = "aggregate"

\* The codes get_language_code can return: the values of SUPPORTED_LANGUAGES.
SelectableCodes ==
    {SUPPORTED_LANGUAGES[n] : n \in DOMAIN SUPPORTED_LANGUAGES}

\* The NLLB codes of the languages that can be selected, each the value
\* NLLB_LANG_CODE_MAP gives for its own code.
NllbCodeOf ==
    [c \in SelectableCodes |->
        CASE c = "en" -> "eng_Latn"  [] c = "hi" -> "hin_Deva"
          [] c = "te" -> "tel_Telu"  [] c = "ta" -> "tam_Taml"
          [] c = "de" -> "deu_Latn"  [] c = "fr" -> "fra_Latn"
          [] c = "bn" -> "ben_Beng"  [] c = "mr" -> "mar_Deva"
          [] c = "kn" -> "kan_Knda"  [] c = "ml" -> "mal_Mlym"
          [] c = "ja" -> "jpn_Jpan"  [] c = "es" -> "spa_Latn"
          [] c = "gu" -> "guj_Gujr"  [] c = "pa" -> "pan_Guru"]

\* C12: every code that is a value of SUPPORTED_LANGUAGES is a key of
\* NLLB_LANG_CODE_MAP, so the target translate_with_nllb passes to the model
\* for it is that language's own NLLB code and not the default; and in a run
\* whose target-language selection returned a code, the translation is
\* requested in that code's NLLB language, the default eng_Latn being used
\* only for English or when no language was selected.
C12_SelectableTargetsHaveNllbCodes ==
    /\ SelectableCodes \subseteq DOMAIN NLLB_LANG_CODE_MAP
    /\ \A c \in SelectableCodes : NllbCode(c) = NllbCodeOf[c]
    /\ \A c \in SelectableCodes : NllbCode(c) = "eng_Latn" => c = "en"
    /\ pc \in {"translate", "tts"} /\ tgt_lang[1] # None =>
          tgt_lang[1] \in SelectableCodes
    /\ tr_obs.made /\ tr_obs.by = "run" /\ tr_obs.invoked =>
          IF tgt_lang[1] = None
          THEN tr_obs.tgt_lang = "eng_Latn"
          ELSE /\ tgt_lang[1] \in DOMAIN NLLB_LANG_CODE_MAP
               /\ tr_obs.tgt_lang = NllbCodeOf[tgt_lang[1]]

\* C12's case: German was selected and the translation was requested in
\* deu_Latn.
C12_GermanTranslatedToGerman ==
    /\ tr_obs.made
    /\ tr_obs.by = "run"
    /\ tr_obs.invoked
    /\ tgt_lang = <<"de", "german">>
    /\ tr_obs.tgt_lang = "deu_Latn"
    /\ pc = "tts"

\* The elements of a sequence.
Range(q) == {q[i] : i \in 1..Len(q)}

\* C13: two runs share a log file and their log updates interleave in any
\* order; when both have run to their end, the file holds an array with the
\* entry of each run and every entry the file held before them.
C13_NoEntryLost ==
    /\ pc = "returned"
    /\ log_obs.completed
    /\ peer.pc = "returned"
    /\ peer.completed
    => /\ log_file.kind = "array"
       /\ ToJson(evaluation_entry) \in Range(log_file.items)
       /\ ToJson(peer.entry) \in Range(log_file.items)
       /\ Range(first_file.items) \subseteq Range(log_file.items)

\* C13's case: both runs read the file before either wrote it, both updates
\* ran to their end without raising, and the file holds the earlier entry and
\* the other run's entry but not this run's.
C13_EntryLost ==
    /\ pc = "returned"
    /\ log_obs.completed
    /\ peer.pc = "returned"
    /\ peer.completed
    /\ first_file = Array(<<OldEntry>>)
    /\ log_file = Array(<<OldEntry, ToJson(peer.entry)>>)

\* C14: whenever load_parler_tts returns, the model and both tokenizers it
\* returns are all set, also on a call made after an earlier call raised
\* part-way through loading; and in every state _parler_model is set only if
\* _tokenizer and _desc_tokenizer are set.
C14_ParlerLoadedWhole ==
    /\ _parler_model # NoRef =>
          _tokenizer # NoRef /\ _desc_tokenizer # NoRef
    /\ calls["parler"].last # <<>> =>
          \A i \in 1..3 : calls["parler"].last[i] # NoRef

\* C14's case: a call of load_parler_tts raised once the model was loaded,
\* and a later call returned that model with no description tokenizer.
C14_ReturnedWithoutTokenizer ==
    /\ runs = 2
    /\ calls["parler"].loads = 1
    /\ calls["parler"].last # <<>>
    /\ calls["parler"].last[1] # NoRef
    /\ calls["parler"].last[3] = NoRef
    /\ tts_obs.made
    /\ tts_obs.backend = "parler"
    /\ ~tts_obs.wrote
    /\ ~tts_obs.played

====
